---- MODULE Spec2Model ----
(***************************************************************************)
(* State-machine model of src/main.js: a module with top-level awaits that *)
(* sets up a WebGPU device, pipeline and buffers, and then runs frame() as *)
(* a requestAnimationFrame callback.                                       *)
(*                                                                         *)
(* JavaScript runs to completion: the host (layout changing the canvas     *)
(* client size, the animation-frame scheduler) acts only while no script   *)
(* is running, that is while the module is suspended at an await, after it *)
(* has finished or thrown, and between two frame callbacks.  The positions *)
(* inside the module body and inside frame() are kept as state (pc, fpc)   *)
(* so that properties "at the point where ..." are state predicates.       *)
(*                                                                         *)
(* Numbers: devicePixelRatio is a rational <<num, den>>; the products      *)
(* clientWidth * devicePixelRatio are rationals <<n, d>>; canvas.width and *)
(* canvas.height are unsigned longs, so assigning a fractional number      *)
(* truncates it.                                                           *)
(***************************************************************************)
EXTENDS Integers, Sequences, FiniteSets, TLC

\* Largest canvas.clientWidth / canvas.clientHeight the host lays out.
MaxClient == 2
\* Largest value of floor(Date.now() / 1000) relative to program start.
MaxNow == 1

\* window.devicePixelRatio values: 1, 1.5 and 2.
DevicePixelRatios == {<<1, 1>>, <<3, 2>>, <<2, 1>>}

ClientSizes == 0..MaxClient
Times == 0..MaxNow

\* Heap cells for GPUTexture objects.  At most two textures are referenced
\* at any time (depthTexture and the texture behind the attached depth
\* view); a cell that is no longer referenced is garbage and may be reused.
TextureIds == {"t1", "t2", "t3"}
Undefined == "undefined"
FreeCell == [width |-> 0, height |-> 0, state |-> "free"]

VARIABLES
    hasGpu,            \* navigator.gpu is present
    devicePixelRatio,  \* window.devicePixelRatio, read at line 20
    clientWidth,       \* canvas.clientWidth
    clientHeight,      \* canvas.clientHeight
    pc,                \* position of the module body (lines 5..149)
    adapter,           \* the value requestAdapter() resolved to is non-null
    consoleErrors,     \* number of console.error calls
    setupCalls,        \* GPU / host API calls made by the module body
    canvasWidth,       \* canvas.width
    canvasHeight,      \* canvas.height
    textures,          \* heap of GPUTexture objects
    depthTexture,      \* let depthTexture (line 64)
    depthView,         \* texture behind renderPassDescriptor.depthStencilAttachment.view
    colorView,         \* size of the texture behind colorAttachments[0].view
    aspect,            \* let aspect (line 97)
    projectionMatrix,  \* const projectionMatrix (line 98)
    uniformBuffer,     \* contents of uniformBuffer
    pending,           \* animation-frame callbacks requested and not yet run
    fpc,               \* position inside frame(), "none" when it is not running
    frameCalls,        \* API calls made by the current (or last) frame()
    clientChanged,     \* history: layout changed the client size since the last
                       \* frame (or, before the first frame, since lines 21-22)
    setupCanvas        \* history: canvas size assigned by setup (lines 21-22)

vars == <<hasGpu, devicePixelRatio, clientWidth, clientHeight, pc, adapter,
          consoleErrors, setupCalls, canvasWidth, canvasHeight, textures,
          depthTexture, depthView, colorView, aspect, projectionMatrix,
          uniformBuffer, pending, fpc, frameCalls, clientChanged, setupCanvas>>

hostVars == <<hasGpu, devicePixelRatio>>
setupVars == <<pc, adapter, consoleErrors, setupCalls, setupCanvas>>
canvasVars == <<canvasWidth, canvasHeight, aspect>>
gpuVars == <<textures, depthTexture, depthView, colorView, projectionMatrix, uniformBuffer>>
clientVars == <<clientWidth, clientHeight>>

----------------------------------------------------------------------------
\* Arithmetic of the values the code computes.

RECURSIVE GCD(_, _)
GCD(a, b) == IF b = 0 THEN a ELSE GCD(b, a % b)

\* a / b on numbers: <<0, 0>> is NaN, <<1, 0>> is Infinity.
Divide(a, b) ==
    IF b = 0 THEN (IF a = 0 THEN <<0, 0>> ELSE <<1, 0>>)
    ELSE <<a \div GCD(a, b), b \div GCD(a, b)>>

\* canvas.clientWidth * devicePixelRatio
Times2(client, dpr) == <<client * dpr[1], dpr[2]>>

\* Assignment to canvas.width / canvas.height (unsigned long): truncation.
ToUnsignedLong(q) == q[1] \div q[2]

\* q !== n for the number q and the integer n.
StrictNotEqual(q, n) == q[1] # n * q[2]

\* Truthiness of a number.
Truthy(q) == q[1] # 0

\* mat4.perspective(fov, aspect, near, far): determined by aspect here.
Perspective(a) == <<"perspective", a>>

RECURSIVE Count(_, _)
Count(s, c) ==
    IF s = <<>> THEN 0
    ELSE (IF Head(s) = c THEN 1 ELSE 0) + Count(Tail(s), c)

----------------------------------------------------------------------------
\* The module body, lines 5..149.

Init ==
    /\ hasGpu \in BOOLEAN
    /\ devicePixelRatio \in DevicePixelRatios
    /\ clientWidth \in ClientSizes
    /\ clientHeight \in ClientSizes
    /\ pc = "check"
    /\ adapter = FALSE
    /\ consoleErrors = 0
    /\ setupCalls = <<>>
    \* canvas.width and canvas.height are not read before lines 21-22 assign them.
    /\ canvasWidth = 0
    /\ canvasHeight = 0
    /\ textures = [t \in TextureIds |-> FreeCell]
    /\ depthTexture = Undefined
    /\ depthView = Undefined
    /\ colorView = <<>>
    /\ aspect = <<>>
    /\ projectionMatrix = <<>>
    /\ uniformBuffer = <<>>
    /\ pending = 0
    /\ fpc = "none"
    /\ frameCalls = <<>>
    /\ clientChanged = FALSE
    /\ setupCanvas = <<>>

\* Number of console.error calls made by the check of lines 5-7.
GpuCheckLogs(gpu) == IF ~gpu THEN 1 ELSE 0

\* Lines 5-7: the check logs and falls through; it does not return or throw.
GpuCheck ==
    /\ pc = "check"
    /\ consoleErrors' = consoleErrors + GpuCheckLogs(hasGpu)
    /\ pc' = "adapter"
    /\ UNCHANGED <<hostVars, clientVars, adapter, setupCalls, setupCanvas,
                   canvasVars, gpuVars, pending, fpc, frameCalls, clientChanged>>

RequestAdapterNeverThrows(gpu) == FALSE

\* Line 9: navigator.gpu.requestAdapter() on an undefined navigator.gpu is a
\* TypeError, which ends the module's evaluation.
RequestAdapterThrows(gpu) == ~gpu

\* Line 9.  requestAdapter() resolves to an adapter or to null.
RequestAdapter ==
    /\ pc = "adapter"
    /\ IF RequestAdapterThrows(hasGpu)
       THEN /\ pc' = "thrown"
            /\ UNCHANGED <<adapter, setupCalls>>
       ELSE /\ pc' = "device"
            /\ adapter' \in BOOLEAN
            /\ setupCalls' = Append(setupCalls, "gpu.requestAdapter")
    /\ UNCHANGED <<hostVars, clientVars, consoleErrors, setupCanvas,
                   canvasVars, gpuVars, pending, fpc, frameCalls, clientChanged>>

\* Line 10.  adapter.requestDevice() on null is a TypeError; otherwise the
\* request resolves to a device or rejects.
RequestDevice ==
    /\ pc = "device"
    /\ IF ~adapter
       THEN /\ pc' = "thrown"
            /\ UNCHANGED setupCalls
       ELSE /\ setupCalls' = Append(setupCalls, "adapter.requestDevice")
            /\ pc' \in {"load", "thrown"}
    /\ UNCHANGED <<hostVars, clientVars, adapter, consoleErrors, setupCanvas,
                   canvasVars, gpuVars, pending, fpc, frameCalls, clientChanged>>

\* Line 12.  loadFile() resolves to the shader source or rejects.
LoadShaderFile ==
    /\ pc = "load"
    /\ pc' \in {"shader", "thrown"}
    /\ UNCHANGED <<hostVars, clientVars, adapter, consoleErrors, setupCalls,
                   setupCanvas, canvasVars, gpuVars, pending, fpc, frameCalls,
                   clientChanged>>

\* Lines 13-15.
CreateShaderModule ==
    /\ pc = "shader"
    /\ setupCalls' = Append(setupCalls, "device.createShaderModule")
    /\ pc' = "canvas"
    /\ UNCHANGED <<hostVars, clientVars, adapter, consoleErrors, setupCanvas,
                   canvasVars, gpuVars, pending, fpc, frameCalls, clientChanged>>

\* Lines 17-31: size the canvas to the displayed size and configure the context.
ConfigureCanvas ==
    /\ pc = "canvas"
    /\ canvasWidth' = ToUnsignedLong(Times2(clientWidth, devicePixelRatio))
    /\ canvasHeight' = ToUnsignedLong(Times2(clientHeight, devicePixelRatio))
    /\ setupCanvas' = <<canvasWidth', canvasHeight'>>
    /\ clientChanged' = FALSE
    /\ setupCalls' = Append(setupCalls, "context.configure")
    /\ pc' = "geometry"
    /\ UNCHANGED <<hostVars, clientVars, adapter, consoleErrors, aspect,
                   gpuVars, pending, fpc, frameCalls>>

\* Lines 33-62: the vertex buffer and the render pipeline.
CreateGeometry ==
    /\ pc = "geometry"
    /\ setupCalls' = setupCalls \o
           <<"device.createBuffer(vertices)", "device.createRenderPipeline">>
    /\ pc' = "depth"
    /\ UNCHANGED <<hostVars, clientVars, adapter, consoleErrors, setupCanvas,
                   canvasVars, gpuVars, pending, fpc, frameCalls, clientChanged>>

\* A heap cell that nothing references.
FreshTexture == CHOOSE t \in TextureIds : t \notin {depthTexture, depthView}

\* Lines 64-68: the depth texture, sized [canvas.width, canvas.height].
CreateDepthTexture ==
    /\ pc = "depth"
    /\ textures' = [textures EXCEPT ![FreshTexture] =
           [width |-> canvasWidth, height |-> canvasHeight, state |-> "live"]]
    /\ depthTexture' = FreshTexture
    /\ setupCalls' = Append(setupCalls, "device.createTexture")
    /\ pc' = "uniforms"
    /\ UNCHANGED <<hostVars, clientVars, adapter, consoleErrors, setupCanvas,
                   canvasVars, depthView, colorView, projectionMatrix,
                   uniformBuffer, pending, fpc, frameCalls, clientChanged>>

\* Lines 70-79: the uniform buffer and the bind group.
CreateUniforms ==
    /\ pc = "uniforms"
    /\ setupCalls' = setupCalls \o
           <<"device.createBuffer(uniform)", "device.createBindGroup">>
    /\ pc' = "descriptor"
    /\ UNCHANGED <<hostVars, clientVars, adapter, consoleErrors, setupCanvas,
                   canvasVars, gpuVars, pending, fpc, frameCalls, clientChanged>>

\* Lines 81-99: the render pass descriptor (with a first depth view), aspect
\* and the projection matrix.
BuildDescriptor ==
    /\ pc = "descriptor"
    /\ depthView' = depthTexture
    /\ setupCalls' = Append(setupCalls, "depthTexture.createView")
    /\ aspect' = Divide(canvasWidth, canvasHeight)
    /\ projectionMatrix' = Perspective(aspect')
    /\ pc' = "schedule"
    /\ UNCHANGED <<hostVars, clientVars, adapter, consoleErrors, setupCanvas,
                   canvasWidth, canvasHeight, textures, depthTexture, colorView,
                   uniformBuffer, pending, fpc, frameCalls, clientChanged>>

RequestAnimationFrameTwice(p) == p + 2

RequestAnimationFrameDropped(p) == p

\* requestAnimationFrame(frame): one more callback is pending.
RequestAnimationFrame(p) == p + 1

\* Line 149.
ScheduleFirstFrame ==
    /\ pc = "schedule"
    /\ pending' = RequestAnimationFrame(pending)
    /\ setupCalls' = Append(setupCalls, "requestAnimationFrame")
    /\ pc' = "done"
    /\ UNCHANGED <<hostVars, clientVars, adapter, consoleErrors, setupCanvas,
                   canvasVars, gpuVars, fpc, frameCalls, clientChanged>>

----------------------------------------------------------------------------
\* The host.

\* No script is running: the module is suspended at one of its awaits
\* (lines 9, 10, 12), or has finished or thrown, and frame() is not running.
NoScriptRunning ==
    /\ fpc = "none"
    /\ pc \in {"device", "load", "shader", "done", "thrown"}

\* Layout gives the canvas another client size.
ClientResize ==
    /\ NoScriptRunning
    /\ \E w \in ClientSizes, h \in ClientSizes :
          /\ <<w, h>> # <<clientWidth, clientHeight>>
          /\ clientWidth' = w
          /\ clientHeight' = h
    /\ clientChanged' = TRUE
    /\ UNCHANGED <<hostVars, setupVars, canvasVars, gpuVars, pending, fpc,
                   frameCalls>>

----------------------------------------------------------------------------
\* frame(), lines 111..148.

ResizeNeededWithoutZeroGuard(curW, curH, cw, ch, tex) ==
    StrictNotEqual(curW, cw) \/ StrictNotEqual(curH, ch) \/ tex = Undefined

\* The condition of line 115.
ResizeNeeded(curW, curH, cw, ch, tex) ==
    /\ StrictNotEqual(curW, cw) \/ StrictNotEqual(curH, ch) \/ tex = Undefined
    /\ Truthy(curW)
    /\ Truthy(curH)

DepthTextureSizeFromClient(cw, ch, clientW, clientH) == <<clientW, clientH>>

\* The size given to createTexture at line 121: canvas.width and
\* canvas.height as read back after the assignments of lines 117-118.
DepthTextureSize(cw, ch, clientW, clientH) == <<cw, ch>>

ResizeCallsWithBindGroup(tex) ==
    (IF tex # Undefined THEN <<"depthTexture.destroy">> ELSE <<>>)
        \o <<"device.createTexture", "device.createBindGroup">>

\* The API calls of the resize branch, lines 116-124.
ResizeCalls(tex) ==
    (IF tex # Undefined THEN <<"depthTexture.destroy">> ELSE <<>>)
        \o <<"device.createTexture">>

AfterResizeSkipsDraw(resized) == IF resized THEN "raf" ELSE "view"

\* Control falls from the if statement to line 126 in both cases.
AfterResize(resized) == "view"

\* The host runs the pending callback; lines 112-125.
FrameBegin ==
    /\ NoScriptRunning
    /\ pending > 0
    /\ pending' = pending - 1
    /\ LET currentWidth == Times2(clientWidth, devicePixelRatio)
           currentHeight == Times2(clientHeight, devicePixelRatio)
           resize == ResizeNeeded(currentWidth, currentHeight,
                                  canvasWidth, canvasHeight, depthTexture)
           destroyed == IF depthTexture # Undefined
                        THEN [textures EXCEPT ![depthTexture].state = "destroyed"]
                        ELSE textures
           size == DepthTextureSize(canvasWidth', canvasHeight',
                                    clientWidth, clientHeight)
       IN  /\ IF resize
              THEN /\ canvasWidth' = ToUnsignedLong(currentWidth)
                   /\ canvasHeight' = ToUnsignedLong(currentHeight)
                   /\ aspect' = Divide(canvasWidth', canvasHeight')
                   /\ textures' = [destroyed EXCEPT ![FreshTexture] =
                          [width |-> size[1], height |-> size[2], state |-> "live"]]
                   /\ depthTexture' = FreshTexture
                   /\ frameCalls' = ResizeCalls(depthTexture)
              ELSE /\ UNCHANGED <<canvasVars, textures, depthTexture>>
                   /\ frameCalls' = <<>>
           /\ fpc' = AfterResize(resize)
    /\ UNCHANGED <<hostVars, clientVars, setupVars, depthView, colorView,
                   projectionMatrix, uniformBuffer, clientChanged>>

\* Garbage collection: the cells of textures that nothing references any
\* more (the view that line 126 replaces was the last reference) are free.
Collect(heap, live) ==
    [t \in TextureIds |-> IF t \in live THEN heap[t] ELSE FreeCell]

DepthViewKept(tex, oldView) == oldView

\* Line 126: the view comes from the texture depthTexture names now.
DepthViewSource(tex, oldView) == tex

\* Line 126.  createView() on undefined would be a TypeError that ends the
\* callback before it requests the next frame.
FrameView ==
    /\ fpc = "view"
    /\ IF depthTexture = Undefined
       THEN /\ fpc' = "none"
            /\ UNCHANGED <<depthView, frameCalls>>
       ELSE /\ depthView' = DepthViewSource(depthTexture, depthView)
            /\ frameCalls' = Append(frameCalls, "depthTexture.createView")
            /\ fpc' = "uniform"
    /\ textures' = Collect(textures, {depthTexture, depthView'})
    /\ UNCHANGED <<hostVars, clientVars, setupVars, canvasVars,
                   depthTexture, colorView, projectionMatrix, uniformBuffer,
                   pending, clientChanged>>

FrameProjectionFromAspect(proj, asp) == Perspective(asp)

\* Line 106: getTransformationMatrix multiplies the module-level constant
\* projectionMatrix; it does not read aspect.
FrameProjection(proj, asp) == proj

\* getTransformationMatrix(), lines 101-109: projection * view(now).
GetTransformationMatrix(t) == <<FrameProjection(projectionMatrix, aspect), t>>

\* Lines 127-134.
FrameUniform ==
    /\ fpc = "uniform"
    /\ \E t \in Times : uniformBuffer' = GetTransformationMatrix(t)
    /\ frameCalls' = Append(frameCalls, "queue.writeBuffer")
    /\ fpc' = "color"
    /\ UNCHANGED <<hostVars, clientVars, setupVars, canvasVars, textures,
                   depthTexture, depthView, colorView, projectionMatrix,
                   pending, clientChanged>>

\* Lines 135-137: the canvas's current texture has the canvas's size.
FrameColor ==
    /\ fpc = "color"
    /\ colorView' = <<canvasWidth, canvasHeight>>
    /\ frameCalls' = frameCalls \o
           <<"context.getCurrentTexture", "currentTexture.createView">>
    /\ fpc' = "pass"
    /\ UNCHANGED <<hostVars, clientVars, setupVars, canvasVars, textures,
                   depthTexture, depthView, projectionMatrix, uniformBuffer,
                   pending, clientChanged>>

\* The API calls of lines 139-145.
PassCalls ==
    <<"device.createCommandEncoder", "encoder.beginRenderPass",
      "pass.setPipeline", "pass.setBindGroup", "pass.setVertexBuffer",
      "pass.draw", "pass.end">>

\* Lines 139-145.
FramePass ==
    /\ fpc = "pass"
    /\ frameCalls' = frameCalls \o PassCalls
    /\ fpc' = "submit"
    /\ UNCHANGED <<hostVars, clientVars, setupVars, canvasVars, gpuVars,
                   pending, clientChanged>>

\* Line 146.
FrameSubmit ==
    /\ fpc = "submit"
    /\ frameCalls' = frameCalls \o <<"encoder.finish", "queue.submit">>
    /\ fpc' = "raf"
    /\ UNCHANGED <<hostVars, clientVars, setupVars, canvasVars, gpuVars,
                   pending, clientChanged>>

\* Line 147.
FrameSchedule ==
    /\ fpc = "raf"
    /\ pending' = RequestAnimationFrame(pending)
    /\ frameCalls' = Append(frameCalls, "requestAnimationFrame")
    /\ clientChanged' = FALSE
    /\ fpc' = "none"
    /\ UNCHANGED <<hostVars, clientVars, setupVars, canvasVars, gpuVars>>

----------------------------------------------------------------------------

Setup ==
    \/ GpuCheck
    \/ RequestAdapter
    \/ RequestDevice
    \/ LoadShaderFile
    \/ CreateShaderModule
    \/ ConfigureCanvas
    \/ CreateGeometry
    \/ CreateDepthTexture
    \/ CreateUniforms
    \/ BuildDescriptor
    \/ ScheduleFirstFrame

Frame ==
    \/ FrameBegin
    \/ FrameView
    \/ FrameUniform
    \/ FrameColor
    \/ FramePass
    \/ FrameSubmit
    \/ FrameSchedule

Next == Setup \/ Frame \/ ClientResize

Spec == Init /\ [][Next]_vars

\* A callback that runs goes on to its end, and the host runs every
\* requested animation callback.
FairSpec == Spec /\ WF_vars(Frame)

----------------------------------------------------------------------------
\* Properties.

InFrame == fpc # "none"

\* The current frame took the resize branch of lines 115-125.
Resized == Count(frameCalls, "device.createTexture") > 0

\* The last frame ran to its end (line 147).
FrameCompleted ==
    /\ fpc = "none"
    /\ frameCalls # <<>>
    /\ frameCalls[Len(frameCalls)] = "requestAnimationFrame"

ZeroClient == clientWidth = 0 \/ clientHeight = 0

SetupAspect == Divide(setupCanvas[1], setupCanvas[2])

\* C1: when frame() is about to begin its render pass, the texture behind
\* the attached depth view has the width and height of the canvas.
C1_DepthMatchesCanvas ==
    fpc = "pass" =>
        /\ depthView \in TextureIds
        /\ textures[depthView].width = canvasWidth
        /\ textures[depthView].height = canvasHeight

C1_Witness ==
    /\ fpc = "pass"
    /\ Resized
    /\ devicePixelRatio = <<3, 2>>
    /\ <<canvasWidth, canvasHeight>> # setupCanvas
    /\ textures[depthView].width = 1

\* C2 (as claimed): a frame destroys and recreates the depth texture only if
\* layout changed the client size since the previous frame.
C2_ResizeOnlyIfChanged ==
    (fpc = "view" /\ Resized) => clientChanged

\* C2, the cases where the code agrees with the claim: an integer
\* devicePixelRatio.
C2_IntegerRatio ==
    (fpc = "view" /\ Resized /\ devicePixelRatio[2] = 1) => clientChanged

C2_Witness ==
    /\ fpc = "view"
    /\ Resized
    /\ ~clientChanged
    /\ devicePixelRatio = <<3, 2>>
    /\ Count(setupCalls, "requestAnimationFrame") = 1

\* C3: a frame that runs to completion writes the uniform buffer once,
\* begins and ends one render pass with one draw call, and submits one
\* command buffer once, whether or not it resized.
C3_OneDrawPerFrame ==
    FrameCompleted =>
        /\ Count(frameCalls, "queue.writeBuffer") = 1
        /\ Count(frameCalls, "encoder.beginRenderPass") = 1
        /\ Count(frameCalls, "pass.draw") = 1
        /\ Count(frameCalls, "pass.end") = 1
        /\ Count(frameCalls, "encoder.finish") = 1
        /\ Count(frameCalls, "queue.submit") = 1

C3_Witness == FrameCompleted /\ Resized /\ Count(frameCalls, "pass.draw") = 1

CreatedOnceInSetup(call) == pc = "done" => Count(setupCalls, call) = 1

\* C4 (as claimed): every resource, the depth texture included, is created
\* once in setup and no frame destroys or creates one.
C4_AllCreateOnce ==
    /\ \A c \in {"device.createBuffer(vertices)", "device.createBuffer(uniform)",
                 "device.createTexture", "device.createRenderPipeline",
                 "device.createBindGroup"} :
          CreatedOnceInSetup(c) /\ Count(frameCalls, c) = 0
    /\ Count(frameCalls, "depthTexture.destroy") = 0

\* C4 (amended): the vertex buffer, the uniform buffer, the pipeline and the
\* bind group are created once in setup and no frame creates one; the depth
\* texture is created once in setup, and a frame destroys it only together
\* with creating its replacement, at most once.
C4_CreateOnceExceptDepth ==
    /\ \A c \in {"device.createBuffer(vertices)", "device.createBuffer(uniform)",
                 "device.createRenderPipeline", "device.createBindGroup"} :
          CreatedOnceInSetup(c) /\ Count(frameCalls, c) = 0
    /\ CreatedOnceInSetup("device.createTexture")
    /\ Count(frameCalls, "device.createTexture") <= 1
    /\ InFrame \/ FrameCompleted =>
          Count(frameCalls, "depthTexture.destroy")
              = Count(frameCalls, "device.createTexture")

C4_Witness ==
    /\ FrameCompleted
    /\ Count(frameCalls, "depthTexture.destroy") = 1
    /\ Count(frameCalls, "device.createTexture") = 1

\* C5: without navigator.gpu the program logs one console error, makes no
\* GPU call, creates nothing and never requests or runs a frame; with
\* navigator.gpu it logs nothing.
C5_NoGpu ==
    /\ ~hasGpu =>
          /\ pc # "check" => consoleErrors = 1
          /\ setupCalls = <<>>
          /\ depthTexture = Undefined
          /\ pending = 0
          /\ ~InFrame
          /\ frameCalls = <<>>
    /\ hasGpu => consoleErrors = 0

C5_Witness == ~hasGpu /\ pc = "thrown" /\ consoleErrors = 1

SetupComplete ==
    /\ pc = "done"
    /\ \A c \in {"gpu.requestAdapter", "adapter.requestDevice",
                 "device.createShaderModule", "context.configure",
                 "device.createBuffer(vertices)", "device.createBuffer(uniform)",
                 "device.createRenderPipeline", "device.createTexture",
                 "device.createBindGroup"} :
          Count(setupCalls, c) = 1

\* C6: a frame runs or is pending only after every setup step has been
\* done, and at most one frame callback is pending or running.
C6_SingleCallback ==
    /\ (InFrame \/ pending > 0) => SetupComplete
    /\ pending + (IF InFrame THEN 1 ELSE 0) <= 1

C6_Witness == fpc = "pass" /\ pending = 0 /\ SetupComplete /\ clientChanged

\* C7: once setup has completed, frame() reaches its end again and again,
\* and each time it requests exactly one more callback.
C7_LoopKeepsRunning ==
    /\ (pc = "done") ~> (fpc = "raf")
    /\ [][(fpc = "raf" /\ fpc' = "none") => pending' = pending + 1]_vars

C7_Witness ==
    /\ pc = "done"
    /\ fpc = "raf"
    /\ ZeroClient
    /\ canvasWidth > 0
    /\ canvasHeight > 0

\* C8: where the depth view is created, depthTexture is a texture that has
\* not been destroyed; for the rest of the frame the attached view is a view
\* of that texture.
C8_NoDestroyedDepth ==
    /\ fpc = "view" =>
          /\ depthTexture \in TextureIds
          /\ textures[depthTexture].state = "live"
    /\ fpc \in {"uniform", "color", "pass", "submit"} =>
          /\ depthView = depthTexture
          /\ depthView \in TextureIds
          /\ textures[depthView].state = "live"

C8_Witness ==
    /\ fpc = "pass"
    /\ Count(frameCalls, "depthTexture.destroy") = 1
    /\ textures[depthView].state = "live"

\* C9: a frame that starts with a zero client width or height leaves
\* canvas.width, canvas.height, aspect and the depth texture as they were,
\* destroys and creates nothing, and still draws with that depth texture.
C9_ZeroSizeGuard ==
    /\ [][(~InFrame /\ InFrame' /\ ZeroClient) =>
             /\ UNCHANGED <<canvasWidth, canvasHeight, aspect, depthTexture, textures>>
             /\ frameCalls' = <<>>]_vars
    /\ []((fpc = "submit" /\ ZeroClient) =>
             /\ ~Resized
             /\ Count(frameCalls, "depthTexture.destroy") = 0
             /\ Count(frameCalls, "pass.draw") = 1
             /\ depthView = depthTexture)

C9_Witness ==
    /\ fpc = "submit"
    /\ clientWidth = 0
    /\ canvasWidth > 0
    /\ Count(frameCalls, "pass.draw") = 1

\* C10: the projection matrix stays the one computed at setup from the
\* initial aspect ratio, and every matrix written to the uniform buffer is
\* built from it, whatever aspect has become.
C10_ProjectionFixed ==
    /\ projectionMatrix # <<>> => projectionMatrix = Perspective(SetupAspect)
    /\ uniformBuffer # <<>> => uniformBuffer[1] = Perspective(SetupAspect)

C10_Witness ==
    /\ uniformBuffer # <<>>
    /\ fpc = "color"
    /\ Resized
    /\ aspect # SetupAspect

====
